---- MODULE Spec2Model ----
(***************************************************************************)
(* Model of check_cars.py: one run of main() per process, repeated by an   *)
(* external scheduler.  Strings are sequences of one-character strings, a  *)
(* dict is a function whose domain is its key set, and a rendered message  *)
(* is the sequence of the pieces appended to it, each with the length of   *)
(* its text.                                                               *)
(***************************************************************************)
EXTENDS Integers, Sequences, FiniteSets, TLC

\* ------------------------------------------------------------------ bounds
MaxReportedPages == 6   \* largest page count the site reports (above the 5-page cap)
MidHref == 2494         \* characters a long listing link has beyond /car/1
LongHref == 3944        \* characters a very long listing link has beyond /car/1

\* ------------------------------------------------------- program constants
MAX_PAGES_BOUND == 6    \* range(1, min(pagination_value + 1, 6))
MSG_LIMIT == 4000       \* len(current_msg + ...) > 4000
RULE_LEN == 40          \* '=' * 40

\* -------------------------------------------------------------------- state
VARIABLES
  pc,               \* position of the process in main()
  env,              \* os.environ of the process
  seed,             \* hash seed of the process
  stateFile,        \* seen_cars.json
  seen_cars,        \* main: seen_cars
  pagination_value, \* fetch_autotrader_cars: pagination_value
  page,             \* fetch_autotrader_cars: page
  cars,             \* fetch_autotrader_cars: cars
  all_cars,         \* main: all_cars
  new_cars,         \* main: new_cars
  messages,         \* main: messages
  msg_i,            \* main: index of the message being sent (1-based)
  result,           \* <<r>> once main returned r, << >> before
  io,               \* record of the external calls this process has made
  fetch_failed,     \* <<cars>> if a page fetch raised with cars accumulated
  notify_log,       \* outcome of each notify() call of this process
  file_at_start,    \* seen_cars.json as this process found it
  last,             \* what earlier processes left: see NoLast and NextRun
  flt,              \* one call of is_writeoff: its argument and its result
  fmt               \* one call of format_car_notification: arguments, result

vars == <<pc, env, seed, stateFile, seen_cars, pagination_value, page, cars,
          all_cars, new_cars, messages, msg_i, result, io,
          fetch_failed, notify_log, file_at_start, last, flt, fmt>>

callVars == <<flt, fmt>>

\* ------------------------------------------------------------------ strings
\* str.lower() on the letters A-Z; every other character is unchanged
ToLower ==
  [A |-> "a", B |-> "b", C |-> "c", D |-> "d", E |-> "e", F |-> "f", G |-> "g",
   H |-> "h", I |-> "i", J |-> "j", K |-> "k", L |-> "l", M |-> "m", N |-> "n",
   O |-> "o", P |-> "p", Q |-> "q", R |-> "r", S |-> "s", T |-> "t", U |-> "u",
   V |-> "v", W |-> "w", X |-> "x", Y |-> "y", Z |-> "z"]

LowerChar(c) == IF c \in DOMAIN ToLower THEN ToLower[c] ELSE c

\* str.lower()
Lower(s) == [i \in 1..Len(s) |-> LowerChar(s[i])]

\* keyword in text
Contains(text, keyword) ==
  \E i \in 1..(Len(text) - Len(keyword) + 1) :
     \A j \in 1..Len(keyword) : text[i + j - 1] = keyword[j]

\* " ".join(parts)
RECURSIVE JoinSpace(_)
JoinSpace(parts) ==
  IF Len(parts) = 0 THEN << >>
  ELSE IF Len(parts) = 1 THEN parts[1]
  ELSE parts[1] \o <<" ">> \o JoinSpace(Tail(parts))

\* len(str(n)) for n >= 0
RECURSIVE Digits(_)
Digits(n) == IF n < 10 THEN 1 ELSE 1 + Digits(n \div 10)

\* code point order of the characters an identifier is made of
Ord(c) ==
  CASE c = "-" -> 45 [] c = "0" -> 48 [] c = "1" -> 49 [] c = "2" -> 50
    [] c = "3" -> 51 [] c = "4" -> 52 [] c = "5" -> 53 [] c = "6" -> 54
    [] c = "7" -> 55 [] c = "8" -> 56 [] c = "9" -> 57

\* a < b on Python strings
RECURSIVE StrLess(_, _)
StrLess(a, b) ==
  IF Len(b) = 0 THEN FALSE
  ELSE IF Len(a) = 0 THEN TRUE
  ELSE IF a[1] = b[1] THEN StrLess(Tail(a), Tail(b))
  ELSE Ord(a[1]) < Ord(b[1])

\* (a variant that sorts in descending order)
RECURSIVE sorted_desc(_)
sorted_desc(ids) ==
  IF ids = {} THEN << >>
  ELSE LET m == CHOOSE x \in ids : \A y \in ids \ {x} : StrLess(y, x)
       IN  <<m>> \o sorted_desc(ids \ {m})

\* sorted(ids)
RECURSIVE sorted(_)
sorted(ids) ==
  IF ids = {} THEN << >>
  ELSE LET m == CHOOSE x \in ids : \A y \in ids \ {x} : StrLess(x, y)
       IN  <<m>> \o sorted(ids \ {m})

Range(s) == {s[i] : i \in 1..Len(s)}

Min(a, b) == IF a < b THEN a ELSE b

\* ------------------------------------------------------- module constants
DEFAULT_MAKE == <<"B", "M", "W">>
DEFAULT_MODEL == <<"3", " ", "S", "e", "r", "i", "e", "s">>
ORIGIN == <<"h", "t", "t", "p", "s", ":", "/", "/", "w", "w", "w", ".", "a", "u", "t", "o", "t", "r", "a", "d", "e", "r", ".", "c", "o", ".", "u", "k">>

writeoff_keywords ==
  << <<"w", "r", "i", "t", "e", "-", "o", "f", "f">>,
     <<"w", "r", "i", "t", "e", "o", "f", "f">>,
     <<"w", "r", "i", "t", "e", " ", "o", "f", "f">>,
     <<"c", "a", "t", " ", "s">>,
     <<"c", "a", "t", " ", "n">>,
     <<"c", "a", "t", " ", "d">>,
     <<"c", "a", "t", " ", "c">>,
     <<"c", "a", "t", " ", "b">>,
     <<"c", "a", "t", " ", "a">>,
     <<"c", "a", "t", "e", "g", "o", "r", "y", " ", "s">>,
     <<"c", "a", "t", "e", "g", "o", "r", "y", " ", "n">>,
     <<"c", "a", "t", "e", "g", "o", "r", "y", " ", "d">>,
     <<"c", "a", "t", "e", "g", "o", "r", "y", " ", "c">>,
     <<"s", "a", "l", "v", "a", "g", "e">>,
     <<"d", "a", "m", "a", "g", "e", "d">>,
     <<"i", "n", "s", "u", "r", "a", "n", "c", "e", " ", "w", "r", "i", "t", "e">>,
     <<"a", "c", "c", "i", "d", "e", "n", "t", " ", "d", "a", "m", "a", "g", "e">>,
     <<"r", "e", "p", "a", "i", "r", "e", "d", " ", "d", "a", "m", "a", "g", "e">> >>

\* ------------------------------------------------------------ is_writeoff
\* text_to_check: the four fields, lower-cased, joined by single spaces
text_to_check(car_details) ==
  JoinSpace(<< Lower(car_details.description),
               Lower(car_details.attention_grabber),
               Lower(car_details.details),
               Lower(car_details.title) >>)

is_writeoff(car_details) ==
  LET text == text_to_check(car_details)
  IN  \E k \in 1..Len(writeoff_keywords) : Contains(text, writeoff_keywords[k])

\* --------------------------------------------------------- extract_car_id
\* str(hash(title_text)): the hash of a str is salted per process
\* (PYTHONHASHSEED), so the table depends on the process's seed.
HashSeeds == {0, 1}

T_M  == <<"B", "M", "W", " ", "3", "3", "0", "e">>
T_M2 == <<"B", "M", "W", " ", "3", "3", "0", "i">>
T_L  == <<"B", "M", "W", " ", "3", "4", "0", "i">>
T_W  == <<"B", "M", "W", " ", "3", "1", "8", "d">>
T_X  == <<"B", "M", "W", " ", "3", "2", "0", "d">>

HashStr(hseed, title_text) ==
  IF hseed = 0
  THEN CASE title_text = T_M  -> <<"9">>
         [] title_text = T_M2 -> <<"-", "5">>
         [] title_text = T_L  -> <<"1", "0">>
         [] title_text = T_W  -> <<"7", "7">>
         [] title_text = T_X  -> <<"1", "2", "3">>
  ELSE CASE title_text = T_M  -> <<"-", "5">>
         [] title_text = T_M2 -> <<"1", "0">>
         [] title_text = T_L  -> <<"9">>
         [] title_text = T_W  -> <<"1", "2", "3">>
         [] title_text = T_X  -> <<"7", "7">>

extract_car_id(hseed, title_element) == HashStr(hseed, title_element.text)

\* ---------------------------------------------------- the site's listings
\* a link: the characters of text followed by fill more characters that are
\* not spelled out (a long query string)
Link(text, fill) == [text |-> text, fill |-> fill]
LinkLen(link) == Len(link.text) + link.fill
NoLink == Link(<< >>, 0)

Listing(title, href, detail, cost, description, atten_grabber) ==
  [title |-> [text |-> title, href |-> href], detail |-> detail, cost |-> cost,
   description |-> description, atten_grabber |-> atten_grabber]

S_2021  == <<"2", "0", "2", "1">>
S_COST  == <<"£", "1", "4", ",", "0", "0", "0">>
S_CLEAN == <<"C", "l", "e", "a", "n", " ", "c", "a", "r">>
S_GREAT == <<"G", "r", "e", "a", "t", " ", "p", "r", "i", "c", "e">>
S_FULL  == <<"F", "u", "l", "l", " ", "h", "i", "s", "t", "o", "r", "y">>
S_CATS  == <<"C", "a", "t", " ", "S", " ", "r", "e", "p", "a", "i", "r", "e", "d">>
S_NICE  == <<"N", "i", "c", "e", " ", "c", "a", "t">>
S_SUPERB == <<"S", "u", "p", "e", "r", "b">>
S_HREF  == <<"/", "c", "a", "r", "/", "1">>

L_M  == Listing(T_M,  Link(S_HREF, MidHref),  S_2021, S_COST, S_FULL,  << >>)
L_M2 == Listing(T_M2, Link(S_HREF, MidHref),  S_2021, S_COST, S_FULL,  << >>)
L_L  == Listing(T_L,  Link(S_HREF, LongHref), S_2021, S_COST, S_CLEAN, S_GREAT)
L_W  == Listing(T_W,  Link(S_HREF, 0),        S_2021, S_COST, S_CATS,  S_GREAT)
L_X  == Listing(T_X,  NoLink,                 S_2021, S_COST, S_NICE,  S_SUPERB)

Catalog == {L_M, L_M2, L_L, L_W, L_X}

\* the listings a result page can show, in page order
ListingSeqs ==
  {<< >>} \cup {<<l>> : l \in Catalog} \cup
  {<<L_M, L_W>>, <<L_X, L_M2>>, <<L_M2, L_L>>}

\* the five find_all() collections of a parsed page
PageOf(ls) ==
  [titles         |-> [i \in 1..Len(ls) |-> ls[i].title],
   details        |-> [i \in 1..Len(ls) |-> ls[i].detail],
   costs          |-> [i \in 1..Len(ls) |-> ls[i].cost],
   descriptions   |-> [i \in 1..Len(ls) |-> ls[i].description],
   atten_grabbers |-> [i \in 1..Len(ls) |-> ls[i].atten_grabber]]

\* a page whose last listing has no attention-grabber block
RaggedPageOf(ls) ==
  [PageOf(ls) EXCEPT !.atten_grabbers = SubSeq(@, 1, Len(@) - 1)]

PageChoices ==
  {PageOf(ls) : ls \in ListingSeqs} \cup
  {RaggedPageOf(<<L_M>>), RaggedPageOf(<<L_M2, L_L>>)}

\* -------------------------------------------- fetch_autotrader_cars, body
EmptyDict == << >>

DictSet(d, k, v) == [x \in (DOMAIN d) \cup {k} |-> IF x = k THEN v ELSE d[x]]

\* zip(titles, details, costs, descriptions, atten_grabbers) stops at the
\* shortest collection
ZipLen(soup) ==
  Min(Len(soup.titles), Min(Len(soup.details), Min(Len(soup.costs),
      Min(Len(soup.descriptions), Len(soup.atten_grabbers)))))

car_url_of(title) ==
  IF LinkLen(title.href) > 0 THEN Link(ORIGIN \o title.href.text, title.href.fill) ELSE NoLink

car_details_of(soup, i) ==
  [title             |-> soup.titles[i].text,
   details           |-> soup.details[i],
   cost              |-> soup.costs[i],
   description       |-> soup.descriptions[i],
   attention_grabber |-> soup.atten_grabbers[i],
   url               |-> car_url_of(soup.titles[i])]

\* the inner for loop over one page: the cars dict after the page
RECURSIVE ParsePage(_, _, _, _)
ParsePage(hseed, soup, i, acc) ==
  IF i > ZipLen(soup) THEN acc
  ELSE LET car_id == extract_car_id(hseed, soup.titles[i])
           car_details == car_details_of(soup, i)
       IN  IF ~is_writeoff(car_details)
           THEN ParsePage(hseed, soup, i + 1, DictSet(acc, car_id, car_details))
           ELSE ParsePage(hseed, soup, i + 1, acc)

\* (a variant that keeps the records of the pages that succeeded)
FetchFailureResult_partial(acc) == acc

\* what the except branch returns, given the records accumulated so far
FetchFailureResult(acc) == EmptyDict

\* number of the last page the loop fetches
LastPage(pv) == Min(pv + 1, MAX_PAGES_BOUND) - 1

\* ------------------------------------------------ format_car_notification
\* A message is the sequence of the pieces concatenated into it; a piece
\* records which text it is and len() of that text.
Piece(part, car_id, len) == [part |-> part, car_id |-> car_id, len |-> len]

RECURSIVE StrLen(_)
StrLen(msg) == IF Len(msg) = 0 THEN 0 ELSE msg[1].len + StrLen(Tail(msg))

\* "\U0001F697 New AutoTrader Alert!\n\n{n} new {make} {model}(s) found:\n"
\* followed by "\n" + "=" * 40 + "\n"
HeaderLen(n, make, model) ==
  25 + Digits(n) + 5 + Len(make) + 1 + Len(model) + 11 + (RULE_LEN + 2)

\* "\U0001F697 Continued ({k}/{n})...\n\n"
ContinuedLen(k, n) == 13 + Digits(k) + 1 + Digits(n) + 6

\* the seven footer lines
FooterLen(make, model) == 20 + (14 + Len(make) + 1 + Len(model) + 1) + 23 + 23 + 30 + 31 + 27

UNKNOWN == <<"U", "n", "k", "n", "o", "w", "n">>
NOT_AVAILABLE == <<"N", "/", "A">>

\* all_cars.get(car_id, {}) followed by the six car.get(field, default)
CarFields(car_map, car_id) ==
  IF car_id \in DOMAIN car_map THEN car_map[car_id]
  ELSE [title |-> UNKNOWN, details |-> << >>, cost |-> NOT_AVAILABLE,
        description |-> << >>, attention_grabber |-> << >>, url |-> NoLink]

\* a line "   X {text}\n" of a text of length len, left out when it is empty
OptLine(prefix, len) == IF len > 0 THEN prefix + len + 1 ELSE 0

\* len(car_info)
CarInfoLen(car) ==
  1 + (2 + Len(car.title) + 1)
    + OptLine(3, Len(car.details))
    + OptLine(5, Len(car.cost))
    + OptLine(5, Len(car.description))
    + OptLine(5, Len(car.attention_grabber))
    + OptLine(5, LinkLen(car.url))
    + (RULE_LEN + 2)

\* len(current_msg + text) > 4000
Exceeds(current_msg, len) == StrLen(current_msg) + len > MSG_LIMIT

\* for car_id in sorted(new_car_ids): ...
RECURSIVE FormatLoop(_, _, _, _, _, _)
FormatLoop(ids, car_map, n, msgs, current_msg, car_count) ==
  IF Len(ids) = 0 THEN [messages |-> msgs, current_msg |-> current_msg]
  ELSE LET car_id == Head(ids)
           car_info == Piece("car", car_id, CarInfoLen(CarFields(car_map, car_id)))
       IN  IF Exceeds(current_msg, car_info.len)
           THEN FormatLoop(Tail(ids), car_map, n, Append(msgs, current_msg),
                           << Piece("continued", << >>, ContinuedLen(car_count + 1, n)), car_info >>,
                           car_count + 1)
           ELSE FormatLoop(Tail(ids), car_map, n, msgs,
                           Append(current_msg, car_info), car_count + 1)

format_car_notification(new_car_ids, car_map, make, model) ==
  IF Cardinality(new_car_ids) = 0 THEN << >>
  ELSE LET n == Cardinality(new_car_ids)
           header == Piece("header", << >>, HeaderLen(n, make, model))
           footer == Piece("footer", << >>, FooterLen(make, model))
           r == FormatLoop(sorted(new_car_ids), car_map, n, << >>, <<header>>, 0)
       IN  IF Exceeds(r.current_msg, footer.len)
           THEN Append(Append(r.messages, r.current_msg), <<footer>>)
           ELSE Append(r.messages, Append(r.current_msg, footer))

\* identifiers of the car blocks of one message, in order
RECURSIVE CarsIn(_)
CarsIn(msg) ==
  IF Len(msg) = 0 THEN << >>
  ELSE (IF msg[1].part = "car" THEN <<msg[1].car_id>> ELSE << >>) \o CarsIn(Tail(msg))

\* identifiers of the car blocks of a message sequence, concatenated in order
RECURSIVE CarsInAll(_)
CarsInAll(msgs) ==
  IF Len(msgs) = 0 THEN << >> ELSE CarsIn(msgs[1]) \o CarsInAll(Tail(msgs))

\* ------------------------------------------------------------ environment
\* os.environ: a function from the names that are set to their values
TOKEN == <<"t", "o", "k">>
CHAT  == <<"4", "2">>

EnvChoices ==
  { [BOT_TOKEN |-> TOKEN, CHAT_ID |-> CHAT],
    [CHAT_ID |-> CHAT],
    [BOT_TOKEN |-> TOKEN, CHAT_ID |-> << >>] }

\* os.environ.get(name): << >> is None, <<v>> is the value v
EnvGet(e, name) == IF name \in DOMAIN e THEN <<e[name]>> ELSE << >>

\* os.environ.get(name, default)
EnvGetDefault(e, name, default) == IF name \in DOMAIN e THEN e[name] ELSE default

\* Python's "not x" for an Optional[str]
Not(opt) == Len(opt) = 0 \/ Len(opt[1]) = 0

\* startup() raises ValueError
startup_raises(e) == Not(EnvGet(e, "BOT_TOKEN")) \/ Not(EnvGet(e, "CHAT_ID"))

\* ------------------------------------------------------------- state file
\* seen_cars.json: missing, unreadable as {"car_ids": [...]}, or a JSON
\* object whose car_ids array is the sequence car_ids
FileMissing == [kind |-> "missing", car_ids |-> << >>]
FileCorrupt == [kind |-> "corrupt", car_ids |-> << >>]
FileJson(list) == [kind |-> "json", car_ids |-> list]

InitialFiles ==
  { FileMissing, FileCorrupt,
    FileJson(<< <<"9">> >>),
    FileJson(<< <<"-", "5">>, <<"9">> >>) }

\* (a variant that ignores the file)
load_seen_cars_empty(file) == {}

\* load_seen_cars()
load_seen_cars(file) == IF file.kind = "json" THEN Range(file.car_ids) ELSE {}

\* list(car_ids): an enumeration of the set; its order is never read back,
\* load_seen_cars turns the array into a set again
list(car_ids) == sorted(car_ids)

\* (a variant that merges with the identifiers loaded at start)
save_seen_cars_merge(car_ids) == FileJson(list(car_ids \cup seen_cars))

\* the file save_seen_cars(car_ids) leaves behind when the write succeeds
save_seen_cars(car_ids) == FileJson(list(car_ids))

\* files a failed write can leave: open() failed, or the dump was cut short
FailedWriteFiles(file) == {file, FileCorrupt}

\* --------------------------------------------------------------- get_pages
PageOutcomes ==
  [kind : {"count"}, n : {0, 1, 2, MaxReportedPages}] \cup
  [kind : {"no_pagination", "error"}, n : {0}]

get_pages(outcome) == IF outcome.kind = "count" THEN outcome.n ELSE 1

\* -------------------------------------------------------------------- main
\* (a variant that reports every current car)
Diff_all(current_cars, seen) == current_cars

\* new_cars = current_cars - seen_cars
Diff(current_cars, seen) == current_cars \ seen

\* if current_cars:
ShouldSave(current_cars) == current_cars # {}

\* what one notify(msg) call does: it returns, or raises ValueError
\* (startup, or a response that is not JSON), RequestException (the post or
\* raise_for_status) or RuntimeError (a response without "ok")
NotifyOutcomes == {"ok", "RequestException", "RuntimeError", "ValueError"}

\* the classes main's "except Exception" catches
ExceptionClasses == {"ValueError", "RuntimeError", "RequestException"}

\* (a variant whose failed notify ends the run without the save)
AfterNotify_abort(outcome, i, n) ==
  IF outcome = "ok" /\ i < n THEN [pc |-> "notify", i |-> i + 1]
  ELSE IF outcome = "ok" THEN [pc |-> "persist", i |-> 0]
  ELSE [pc |-> "return", i |-> 0]

\* (a variant whose loop goes on after a failed notify)
AfterNotify_continue(outcome, i, n) ==
  IF i < n THEN [pc |-> "notify", i |-> i + 1]
  ELSE [pc |-> "persist", i |-> 0]

\* where main goes after notify(messages[i]) returned or raised
AfterNotify(outcome, i, n) ==
  IF outcome = "ok" /\ i < n THEN [pc |-> "notify", i |-> i + 1]
  ELSE IF outcome = "ok" \/ outcome \in ExceptionClasses THEN [pc |-> "persist", i |-> 0]
  ELSE [pc |-> "crashed", i |-> 0]

NoIO == [loaded |-> FALSE, fetched |-> FALSE, saved |-> "no"]
\* known: some earlier run had a non-empty RecordSet and every write of the
\* state file since then succeeded; keys: the key set of the latest such run;
\* gap: a later run fetched nothing; nfail: a notify call of that run failed
NoLast == [known |-> FALSE, keys |-> {}, gap |-> FALSE, nfail |-> FALSE]

make == EnvGetDefault(env, "CAR_MAKE", DEFAULT_MAKE)
model == EnvGetDefault(env, "CAR_MODEL", DEFAULT_MODEL)

\* a fresh process, before main() has done anything
ProcessStart ==
  /\ pc' = "main"
  /\ env' \in EnvChoices
  /\ seed' \in HashSeeds
  /\ seen_cars' = {}
  /\ pagination_value' = 0
  /\ page' = 0
  /\ cars' = EmptyDict
  /\ all_cars' = EmptyDict
  /\ new_cars' = {}
  /\ messages' = << >>
  /\ msg_i' = 0
  /\ result' = << >>
  /\ io' = NoIO
  /\ fetch_failed' = << >>
  /\ notify_log' = << >>

NoCall == [phase |-> "none"]

InitMain ==
  /\ pc = "main"
  /\ env \in EnvChoices
  /\ seed \in HashSeeds
  /\ stateFile \in InitialFiles
  /\ seen_cars = {}
  /\ pagination_value = 0
  /\ page = 0
  /\ cars = EmptyDict
  /\ all_cars = EmptyDict
  /\ new_cars = {}
  /\ messages = << >>
  /\ msg_i = 0
  /\ result = << >>
  /\ io = NoIO
  /\ fetch_failed = << >>
  /\ notify_log = << >>
  /\ file_at_start = stateFile
  /\ last = NoLast

Init ==
  /\ InitMain
  /\ flt = NoCall
  /\ fmt = NoCall

\* main, line 348: seen_cars = load_seen_cars()
LoadSeenCars ==
  /\ pc = "main"
  /\ UNCHANGED callVars
  /\ seen_cars' = load_seen_cars(stateFile)
  /\ io' = [io EXCEPT !.loaded = TRUE]
  /\ file_at_start' = stateFile
  /\ pc' = "get_pages"
  /\ UNCHANGED <<env, seed, stateFile, pagination_value, page, cars, all_cars,
                 new_cars, messages, msg_i, result, fetch_failed,
                 notify_log, last>>

\* fetch_autotrader_cars, lines 185-190: pagination_value = get_pages(url)
GetPages ==
  /\ pc = "get_pages"
  /\ UNCHANGED callVars
  /\ \E outcome \in PageOutcomes : pagination_value' = get_pages(outcome)
  /\ page' = 1
  /\ cars' = EmptyDict
  /\ io' = [io EXCEPT !.fetched = TRUE]
  /\ pc' = "fetch"
  /\ UNCHANGED <<env, seed, stateFile, seen_cars, all_cars, new_cars, messages,
                 msg_i, result, fetch_failed, notify_log,
                 file_at_start, last>>

\* one iteration of the page loop whose bs_setup() succeeds
FetchPage ==
  /\ pc = "fetch"
  /\ UNCHANGED callVars
  /\ page <= LastPage(pagination_value)
  /\ \E soup \in PageChoices : cars' = ParsePage(seed, soup, 1, cars)
  /\ page' = page + 1
  /\ io' = [io EXCEPT !.fetched = TRUE]
  /\ UNCHANGED <<pc, env, seed, stateFile, seen_cars, pagination_value,
                 all_cars, new_cars, messages, msg_i, result, fetch_failed,
                 notify_log, file_at_start, last>>

\* main, lines 353-365, once fetch_autotrader_cars returned fetched
AfterFetch(fetched) ==
  LET current_cars == DOMAIN fetched
      new == Diff(current_cars, seen_cars)
  IN  /\ all_cars' = fetched
      /\ new_cars' = new
      /\ pagination_value' = 0
      /\ page' = 0
      /\ cars' = EmptyDict
      /\ IF new # {}
         THEN /\ messages' = format_car_notification(new, fetched, make, model)
              /\ msg_i' = 1
              /\ pc' = "notify"
         ELSE /\ messages' = << >>
              /\ msg_i' = 0
              /\ pc' = "persist"

\* the page loop is exhausted: return cars
FetchReturn ==
  /\ pc = "fetch"
  /\ UNCHANGED callVars
  /\ page > LastPage(pagination_value)
  /\ AfterFetch(cars)
  /\ UNCHANGED <<env, seed, stateFile, seen_cars, result, io,
                 fetch_failed, notify_log, file_at_start, last>>

\* bs_setup() raises in the page loop: the except branch returns
FetchPageError ==
  /\ pc = "fetch"
  /\ UNCHANGED callVars
  /\ page <= LastPage(pagination_value)
  /\ fetch_failed' = <<cars>>
  /\ AfterFetch(FetchFailureResult(cars))
  /\ io' = [io EXCEPT !.fetched = TRUE]
  /\ UNCHANGED <<env, seed, stateFile, seen_cars, result,
                 notify_log, file_at_start, last>>

\* main, lines 366-370: notify(messages[msg_i]) and the except around the loop
Notify ==
  /\ pc = "notify"
  /\ UNCHANGED callVars
  /\ \E o \in (IF startup_raises(env) THEN {"ValueError"} ELSE NotifyOutcomes) :
        LET next == AfterNotify(o, msg_i, Len(messages))
        IN  /\ notify_log' = Append(notify_log, o)
            /\ pc' = next.pc
            /\ msg_i' = next.i
  /\ UNCHANGED <<env, seed, stateFile, seen_cars, pagination_value, page, cars,
                 all_cars, new_cars, messages, result, io,
                 fetch_failed, file_at_start, last>>

\* main, lines 374-377: save the state if there are current cars; a failed
\* write is caught inside save_seen_cars
Persist ==
  /\ pc = "persist"
  /\ UNCHANGED callVars
  /\ LET current_cars == DOMAIN all_cars
     IN  IF ShouldSave(current_cars)
         THEN \/ /\ stateFile' = save_seen_cars(current_cars)
                 /\ io' = [io EXCEPT !.saved = "ok"]
              \/ /\ stateFile' \in FailedWriteFiles(stateFile)
                 /\ io' = [io EXCEPT !.saved = "failed"]
         ELSE UNCHANGED <<stateFile, io>>
  /\ pc' = "return"
  /\ UNCHANGED <<env, seed, seen_cars, pagination_value, page, cars, all_cars,
                 new_cars, messages, msg_i, result, fetch_failed,
                 notify_log, file_at_start, last>>

\* main, line 381: the summary record
Summary ==
  [ok |-> TRUE, new_cars_count |-> Cardinality(new_cars),
   total_count |-> Cardinality(DOMAIN all_cars),
   previously_seen |-> Cardinality(seen_cars),
   currently_seen |-> Cardinality(DOMAIN all_cars)]

\* main, lines 379-387: return the summary
Return ==
  /\ pc = "return"
  /\ UNCHANGED callVars
  /\ result' = <<Summary>>
  /\ pc' = "done"
  /\ UNCHANGED <<env, seed, stateFile, seen_cars, pagination_value, page, cars,
                 all_cars, new_cars, messages, msg_i, io,
                 fetch_failed, notify_log, file_at_start, last>>

NotifyFailed == \E i \in 1..Len(notify_log) : notify_log[i] # "ok"

\* the scheduler starts the next process; the finished one becomes history
NextRun ==
  /\ pc \in {"done", "crashed"}
  /\ UNCHANGED callVars
  /\ ProcessStart
  /\ file_at_start' = stateFile
  /\ last' = IF DOMAIN all_cars # {}
             THEN IF io.saved = "ok"
                  THEN [known |-> TRUE, keys |-> DOMAIN all_cars, gap |-> FALSE,
                        nfail |-> NotifyFailed]
                  ELSE NoLast
             ELSE [last EXCEPT !.gap = last.known]
  /\ UNCHANGED stateFile

Next ==
  \/ LoadSeenCars
  \/ GetPages
  \/ FetchPage
  \/ FetchReturn
  \/ FetchPageError
  \/ Notify
  \/ Persist
  \/ Return
  \/ NextRun

Spec == Init /\ [][Next]_vars

\* --------------------------------------------- is_writeoff as a function
S_WRITE == <<"I", "n", "s", "u", "r", "e", "r", " ", "W", "R", "I", "T", "E">>
S_OFF   == <<"o", "f", "f", " ", "r", "o", "a", "d">>
T_SALV  == <<"S", "A", "L", "V", "A", "G", "E", " ", "B", "M", "W">>

FilterInputs ==
  [title             : {T_M, T_SALV},
   details           : {S_2021, S_SUPERB},
   cost              : {S_COST},
   description       : {<< >>, S_CLEAN, S_CATS, S_NICE, S_WRITE},
   attention_grabber : {<< >>, S_GREAT, S_SUPERB, S_OFF},
   url               : {NoLink}]

\* the main program at rest, for the specifications of a single call
InitMainIdle ==
  /\ InitMain
  /\ env = [BOT_TOKEN |-> TOKEN, CHAT_ID |-> CHAT]
  /\ seed = 0
  /\ stateFile = FileMissing

InitFilter ==
  /\ InitMainIdle
  /\ \E r \in FilterInputs : flt = [phase |-> "input", car_details |-> r, excluded |-> FALSE]
  /\ fmt = NoCall

\* is_writeoff(car_details) is called and returns
CallIsWriteoff ==
  /\ flt.phase = "input"
  /\ flt' = [flt EXCEPT !.phase = "result", !.excluded = is_writeoff(flt.car_details)]
  /\ UNCHANGED <<pc, env, seed, stateFile, seen_cars, pagination_value, page,
                 cars, all_cars, new_cars, messages, msg_i, result, io,
                 fetch_failed, notify_log, file_at_start, last, fmt>>

SpecFilter == InitFilter /\ [][CallIsWriteoff]_vars

\* --------------------------------- format_car_notification as a function
FormatIds == {<<"-", "5">>, <<"1", "0">>, <<"9">>}

\* link fill lengths: short, medium, the largest whose block still fits
\* behind the header, the smallest that does not, and a very long one
FillChoices == {0, 1800, 3771, 3772, LongHref}

FormatRecord(fill) ==
  [title |-> T_M, details |-> S_2021, cost |-> S_COST, description |-> S_FULL,
   attention_grabber |-> << >>, url |-> Link(ORIGIN \o S_HREF, fill)]

BareRecord ==
  [title |-> T_X, details |-> << >>, cost |-> << >>, description |-> << >>,
   attention_grabber |-> << >>, url |-> NoLink]

FormatRecords == {BareRecord} \cup {FormatRecord(f) : f \in FillChoices}

\* a dict over some of the identifiers; the new identifiers are its keys and,
\* possibly, one identifier it has no record for
FormatDicts == UNION {[ids -> FormatRecords] : ids \in SUBSET FormatIds}

FormatInputs ==
  { [phase |-> "input", new_car_ids |-> (DOMAIN d) \cup extra, all_cars |-> d,
     messages |-> << >>] : d \in FormatDicts, extra \in {{}, {<<"7", "7">>}} }

InitFormat ==
  /\ InitMainIdle
  /\ flt = NoCall
  /\ fmt \in FormatInputs

\* format_car_notification(new_car_ids, all_cars, make, model) is called
CallFormat ==
  /\ fmt.phase = "input"
  /\ fmt' = [fmt EXCEPT !.phase = "result",
               !.messages = format_car_notification(fmt.new_car_ids, fmt.all_cars,
                                                    DEFAULT_MAKE, DEFAULT_MODEL)]
  /\ UNCHANGED <<pc, env, seed, stateFile, seen_cars, pagination_value, page,
                 cars, all_cars, new_cars, messages, msg_i, result, io,
                 fetch_failed, notify_log, file_at_start, last, flt>>

SpecFormat == InitFormat /\ [][CallFormat]_vars

\* ------------------------------------------------------------------ claims
PostFetch == pc \in {"notify", "persist", "return", "done"}

\* identifiers rendered in the messages notify() has been called with
NotifiedIds == UNION {Range(CarsIn(messages[i])) : i \in 1..Len(notify_log)}

\* the seen set a process loads from the file it finds
LoadedSeen == load_seen_cars(file_at_start)

\* C1 (as stated): after a page fetch failed, the run goes on with the records
\* accumulated from the pages that succeeded.
C1_PartialResultsKept ==
  (fetch_failed # << >> /\ PostFetch) => all_cars = fetch_failed[1]

\* C1 (amended): after a page fetch failed, fetch_autotrader_cars has returned
\* the empty mapping whatever was accumulated; the run goes on with an empty
\* RecordSet, so it notifies nothing and does not write the state file.
C1_FailureDropsAccumulated ==
  (fetch_failed # << >> /\ PostFetch) =>
     /\ all_cars = EmptyDict
     /\ new_cars = {}
     /\ messages = << >>
     /\ notify_log = << >>
     /\ io.saved = "no"
     /\ stateFile = file_at_start

C1_Witness ==
  /\ pc = "done"
  /\ fetch_failed # << >>
  /\ DOMAIN fetch_failed[1] # {}

\* C2: with BOT_TOKEN or CHAT_ID unset the run aborts before any state load,
\* fetch, state write or returned summary.
C2_MissingConfigAbortsRun ==
  startup_raises(env) =>
     /\ ~io.loaded
     /\ ~io.fetched
     /\ io.saved = "no"
     /\ result = << >>

\* C3 (as stated): at the end of every run whose write did not fail, the
\* persisted seen set is the key set of the run's RecordSet, empty or not.
C3_StateAlwaysReplaced ==
  (pc = "done" /\ io.saved # "failed") =>
     load_seen_cars(stateFile) = DOMAIN all_cars

\* C3 (amended): at the end of a run whose write did not fail, if the RecordSet
\* is non-empty the persisted seen set is exactly its key set (earlier
\* identifiers not rediscovered are dropped); if the RecordSet is empty the
\* state file was not written and is as the run found it.
C3_StateReplacedUnlessEmpty ==
  (pc = "done" /\ io.saved # "failed") =>
     IF DOMAIN all_cars # {}
     THEN /\ io.saved = "ok"
          /\ stateFile.kind = "json"
          /\ load_seen_cars(stateFile) = DOMAIN all_cars
     ELSE /\ io.saved = "no"
          /\ stateFile = file_at_start

C3_Witness ==
  /\ pc = "done"
  /\ io.saved = "ok"
  /\ LoadedSeen \ DOMAIN all_cars # {}
  /\ LoadedSeen \cap DOMAIN all_cars # {}

\* C4 (as stated): a run in which a notify call failed never saves the state;
\* the state file stays as loaded.
C4_NotifyFailureSkipsPersist ==
  (pc = "done" /\ NotifyFailed) => (io.saved = "no" /\ stateFile = file_at_start)

\* C4 (amended): a run in which a notify call failed still performs the save:
\* the write is attempted and, when it succeeds, the persisted seen set is the
\* key set of the run's RecordSet.
C4_NotifyFailureStillPersists ==
  (pc = "done" /\ NotifyFailed) =>
     /\ io.saved # "no"
     /\ io.saved = "ok" => load_seen_cars(stateFile) = DOMAIN all_cars

C4_Witness ==
  /\ pc = "done"
  /\ NotifyFailed
  /\ io.saved = "ok"
  /\ load_seen_cars(stateFile) # LoadedSeen

\* C5: every message the formatter returns is at most 4000 characters long.
C5_MessagesWithinLimit ==
  fmt.phase = "result" =>
     \A i \in 1..Len(fmt.messages) : StrLen(fmt.messages[i]) <= MSG_LIMIT

\* C6: the records rendered into the run's notifications are exactly those
\* whose identifier is a current key and not in the loaded seen set; nothing
\* from the loaded seen set is ever passed to notify; when that difference is
\* empty the formatter yields no message and notify is never called; when every
\* notify call succeeded, every new record has been notified.
C6_NotifiesExactlyTheDifference ==
  PostFetch =>
     /\ new_cars = (DOMAIN all_cars) \ LoadedSeen
     /\ Range(CarsInAll(messages)) = new_cars
     /\ NotifiedIds \subseteq new_cars
     /\ NotifiedIds \cap LoadedSeen = {}
     /\ Len(notify_log) <= Len(messages)
     /\ new_cars = {} =>
          /\ format_car_notification(new_cars, all_cars, make, model) = << >>
          /\ messages = << >>
          /\ notify_log = << >>
     /\ (pc # "notify" /\ ~NotifyFailed) => NotifiedIds = new_cars

C6_Witness ==
  /\ pc = "done"
  /\ ~NotifyFailed
  /\ NotifiedIds # {}
  /\ LoadedSeen \cap DOMAIN all_cars # {}

\* C7: for a non-empty new-identifier set, the car blocks of the returned
\* messages, read in order across the messages, are one block per new
\* identifier, each the block of that identifier's record, in ascending
\* lexicographic order of identifier.
C7_EveryBlockOnceInOrder ==
  (fmt.phase = "result" /\ fmt.new_car_ids # {}) =>
     LET b == CarsInAll(fmt.messages)
     IN  /\ Len(b) = Cardinality(fmt.new_car_ids)
         /\ Range(b) = fmt.new_car_ids
         /\ \A i \in 1..Len(b) : \A j \in 1..Len(b) : i < j => StrLess(b[i], b[j])
         /\ \A k \in 1..Len(fmt.messages) : \A q \in 1..Len(fmt.messages[k]) :
               LET piece == fmt.messages[k][q]
               IN  piece.part = "car" =>
                     piece.len = CarInfoLen(CarFields(fmt.all_cars, piece.car_id))

C7_Witness ==
  /\ fmt.phase = "result"
  /\ Cardinality(fmt.new_car_ids) = 3
  /\ Len(fmt.messages) >= 2
  /\ Len(CarsIn(fmt.messages[1])) >= 1
  /\ Len(CarsIn(fmt.messages[2])) >= 1

\* C8: a failed notify call is the last notify call of its run, and the run
\* still reaches its end and returns the summary record.
C8_FailureEndsNotifyLoop ==
  /\ \A i \in 1..Len(notify_log) :
        notify_log[i] # "ok" =>
           /\ i = Len(notify_log)
           /\ pc \in {"persist", "return", "done"}
  /\ pc # "crashed"
  /\ pc = "done" => result = <<Summary>>

C8_Witness ==
  /\ pc = "done"
  /\ Len(messages) >= 2
  /\ notify_log = <<"RuntimeError">>
  /\ result = <<Summary>>

\* keyword occurs, ignoring case, inside one of the four text fields
KeywordInAField(r) ==
  \E k \in 1..Len(writeoff_keywords) :
     \/ Contains(Lower(r.description), writeoff_keywords[k])
     \/ Contains(Lower(r.attention_grabber), writeoff_keywords[k])
     \/ Contains(Lower(r.details), writeoff_keywords[k])
     \/ Contains(Lower(r.title), writeoff_keywords[k])

\* C9: the filter excludes a record exactly when some keyword occurs inside
\* one of its four text fields taken individually.
C9_ExcludedIffKeywordInAField ==
  flt.phase = "result" => (flt.excluded <=> KeywordInAField(flt.car_details))

\* C10: while the state file is read and written without failure, no
\* identifier of the latest earlier non-empty RecordSet is passed to notify,
\* also after runs that fetched nothing and after a run whose notify failed.
C10_NoRenotification ==
  last.known => NotifiedIds \cap last.keys = {}

C10_Witness ==
  /\ pc = "done"
  /\ last.known /\ last.gap /\ last.nfail
  /\ last.keys \cap DOMAIN all_cars # {}
  /\ NotifiedIds # {}

====
